---- MODULE Spec2Model ----
(***************************************************************************)
(* Contacts Book CLI (contacts-book.py): the contacts.json store file, the *)
(* atomic save, and the menu operations of one or more processes that run  *)
(* the program on the same file.                                           *)
(*                                                                         *)
(* Text is a sequence of one-character strings, so that strip(), lower(),  *)
(* title(), int() and the two regular expressions are computed character   *)
(* by character.  A store is a sequence of entries in dict order.          *)
(* list_contacts only reads the store and prints it; it is left out.       *)
(***************************************************************************)
EXTENDS Naturals, Sequences, FiniteSets

(* ---------- bounds ---------- *)
\* the handlers one run of the program starts
MaxOps == 2

(* ---------- program constants ---------- *)
\* PHONE_RE = ^\d{10}$
PhoneLen == 10

VARIABLES file, tmp, pc, loc, prev, out, left

vars == <<file, tmp, pc, loc, prev, out, left>>

\* the processes that run the program on the same contacts.json
Procs == {"A", "B"}

(* ---------- characters and text ---------- *)
LowerLetters == <<"a","b","c","d","e","f","g","h","i","j","k","l","m",
                  "n","o","p","q","r","s","t","u","v","w","x","y","z">>
UpperLetters == <<"A","B","C","D","E","F","G","H","I","J","K","L","M",
                  "N","O","P","Q","R","S","T","U","V","W","X","Y","Z">>
DigitChars == <<"0","1","2","3","4","5","6","7","8","9">>

Range(s) == {s[i] : i \in 1..Len(s)}
IndexOf(c, s) == CHOOSE i \in 1..Len(s) : s[i] = c

IsLower(c) == c \in Range(LowerLetters)
IsUpper(c) == c \in Range(UpperLetters)
IsCased(c) == IsLower(c) \/ IsUpper(c)
\* \d of PHONE_RE
IsDigit(c) == c \in Range(DigitChars)
\* \w of EMAIL_RE
IsWord(c) == IsCased(c) \/ IsDigit(c) \/ c = "_"
\* [\w\.-] of EMAIL_RE
IsWordDotHyphen(c) == IsWord(c) \/ c = "." \/ c = "-"
IsSpace(c) == c = " "

LowerChar(c) == IF IsUpper(c) THEN LowerLetters[IndexOf(c, UpperLetters)] ELSE c
UpperChar(c) == IF IsLower(c) THEN UpperLetters[IndexOf(c, LowerLetters)] ELSE c

\* str.lower()
Lower(s) == [i \in 1..Len(s) |-> LowerChar(s[i])]

\* str.title(): a cased character is upper-cased when the character before
\* it is not cased, and lower-cased otherwise
Title(s) == [i \in 1..Len(s) |->
               IF i > 1 /\ IsCased(s[i-1]) THEN LowerChar(s[i]) ELSE UpperChar(s[i])]

\* str.strip()
RECURSIVE LStrip(_)
LStrip(s) == IF s # << >> /\ IsSpace(Head(s)) THEN LStrip(Tail(s)) ELSE s
RECURSIVE RStrip(_)
RStrip(s) == IF s # << >> /\ IsSpace(s[Len(s)])
               THEN RStrip(SubSeq(s, 1, Len(s) - 1)) ELSE s
Strip(s) == RStrip(LStrip(s))

\* int(): the decimal value of a text of digits, or ValueError
DigitValue(c) == IndexOf(c, DigitChars) - 1
RECURSIVE DecimalValue(_)
DecimalValue(s) == IF s = << >> THEN 0
                   ELSE 10 * DecimalValue(SubSeq(s, 1, Len(s) - 1)) + DigitValue(s[Len(s)])
ParseInt(s) == IF s # << >> /\ \A i \in 1..Len(s) : IsDigit(s[i])
                 THEN [ok |-> TRUE, value |-> DecimalValue(s)]
                 ELSE [ok |-> FALSE, value |-> 0]

(* ---------- validators ---------- *)
\* faulty variant: \d+ in place of \d{10}
is_valid_phone_any_length(p) == p # << >> /\ \A i \in 1..Len(p) : IsDigit(p[i])
is_valid_phone(p) == Len(p) = PhoneLen /\ \A i \in 1..Len(p) : IsDigit(p[i])

\* ^[\w\.-]+@[\w\.-]+\.\w+$ : some "@" at position a and some "." at position d
\* split the text into three non-empty runs of the right classes
EMAIL_RE(e) ==
    \E a \in 2..Len(e) :
      /\ e[a] = "@"
      /\ \A i \in 1..(a-1) : IsWordDotHyphen(e[i])
      /\ \E d \in (a+2)..(Len(e)-1) :
           /\ e[d] = "."
           /\ \A i \in (a+1)..(d-1) : IsWordDotHyphen(e[i])
           /\ \A i \in (d+1)..Len(e) : IsWord(e[i])

is_valid_email(e) == EMAIL_RE(e) \/ e = << >>

(* ---------- the store: a dict of phone -> {name, email}, in dict order ---------- *)
Entry(phone, name, email) == [phone |-> phone, name |-> name, email |-> email]

Keys(c) == {c[i].phone : i \in 1..Len(c)}
\* phone in contacts
HasKey(c, k) == k \in Keys(c)
\* contacts[k]
Get(c, k) == c[CHOOSE i \in 1..Len(c) : c[i].phone = k]
\* faulty variant: contacts.get(k) in place of contacts.pop(k)
DictPopKeeps(c, k) == c
\* contacts.pop(k, None)
DictPop(c, k) == SelectSeq(c, LAMBDA e : e.phone # k)
\* contacts[k] = {...}: in place when k is a key, appended otherwise
DictSet(c, k, name, email) ==
    IF HasKey(c, k)
      THEN [i \in 1..Len(c) |-> IF c[i].phone = k THEN Entry(k, name, email) ELSE c[i]]
      ELSE Append(c, Entry(k, name, email))
\* the dict as a mapping, without its order
AsMap(c) == [k \in Keys(c) |-> [name |-> Get(c, k).name, email |-> Get(c, k).email]]

(* ---------- the store file ---------- *)
FileOf(kind) == [kind |-> kind, store |-> << >>]
ObjectFile(c) == [kind |-> "object", store |-> c]
NoFile == FileOf("missing")

\* open(..., encoding="utf-8") + json.load: UnicodeDecodeError is a ValueError
\* that is neither json.JSONDecodeError nor IOError, so it is not caught
LoadRaises(f) == f.kind = "undecodable"

\* missing: line 69; unreadable: IOError; empty, invalid, truncated:
\* JSONDecodeError; nonobject: not a dict; object: the dict
safe_load_contacts(f) == IF f.kind = "object" THEN f.store ELSE << >>

(* ---------- inputs ---------- *)
Rep(c, n) == [i \in 1..n |-> c]
P1 == Rep("1", PhoneLen)
P2 == Rep("2", PhoneLen)
P3 == Rep("3", PhoneLen)
ShortPhone == <<"1","2","3">>
LongPhone == Rep("1", PhoneLen + 1)
AlphaPhone == Rep("1", PhoneLen - 1) \o <<"a">>
PhoneInputs == {<< >>, P1, P2, P3, ShortPhone, LongPhone, AlphaPhone}
NameInputs == {<<" ">>, <<"a","l">>, <<"B","O"," ">>}
GoodEmail == <<"a","@","b",".","c">>
EmailInputs == {<< >>, GoodEmail, <<"a","@","b">>}
Choices == {<<"1">>, <<"2">>, <<"3">>, <<"4">>, <<"9">>}
SelInputs == {<<"0">>, <<"1">>, <<"2">>, <<"3">>, <<"x">>}
ConfirmInputs == {<<"Y","e","s">>, <<"n","o">>}
ClearInputs == {<<"c","o","n","f","i","r","m">>, <<"n","o">>}

(* ---------- a handler's frame ---------- *)
\* op: the handler; loaded: the dict safe_load_contacts() returned; contacts:
\* the dict it holds now; ch, q, matches: criterion, query and items; n: the
\* number selected (0: none); sel: the phone resolved (phone_sel, or the key
\* added); fld, newv: the field chosen and its new value; msg: the message
\* it returned with; save: it reached its call of safe_save_contacts
Frame(op, c) ==
    [op |-> op, loaded |-> c, contacts |-> c, ch |-> << >>, q |-> << >>,
     matches |-> << >>, n |-> 0, sel |-> << >>, fld |-> << >>, newv |-> << >>,
     msg |-> "", save |-> FALSE]
BlankFrame(op) == Frame(op, << >>)
\* faulty variant: the message is printed and the handler goes on to its save
ReturnFallsThrough(f, m) == [f EXCEPT !.msg = m, !.save = TRUE]
Return(f, m) == [f EXCEPT !.msg = m]
Save(f, c) == [f EXCEPT !.contacts = c, !.save = TRUE]

(* ---------- locating contacts (search, delete, update) ---------- *)
\* if not is_valid_email(q) or not q == ""
EmailQueryRejected(q) == ~ is_valid_email(q) \/ ~ (q = << >>)

\* the three branches on the criterion: the query as typed, its validation,
\* and the comprehension over contacts.items()
FindBy(f, ch, q_in) ==
    IF ch = <<"1">> THEN
      LET q == Strip(q_in)
          g == [f EXCEPT !.ch = ch, !.q = q] IN
      IF ~ is_valid_phone(q) THEN Return(g, "Invalid phone!")
      ELSE [g EXCEPT !.matches = SelectSeq(f.loaded, LAMBDA e : e.phone = q)]
    ELSE IF ch = <<"2">> THEN
      LET q == Lower(Strip(q_in))
          g == [f EXCEPT !.ch = ch, !.q = q] IN
      IF q = << >> THEN Return(g, "Name required!")
      ELSE [g EXCEPT !.matches = SelectSeq(f.loaded, LAMBDA e : Lower(e.name) = q)]
    ELSE
      LET q == Lower(Strip(q_in))
          g == [f EXCEPT !.ch = ch, !.q = q] IN
      IF EmailQueryRejected(q) THEN Return(g, "Invalid email!")
      ELSE [g EXCEPT !.matches = SelectSeq(f.loaded, LAMBDA e : Lower(e.email) = q)]

\* faulty variant: items[0][0] in place of items[sel-1][0]
SelectionFirst(f, sel_in) ==
    LET n == ParseInt(Strip(sel_in)) IN
    IF ~ n.ok THEN Return(f, "Please enter a valid number!")
    ELSE IF ~ (1 <= n.value /\ n.value <= Len(f.matches))
      THEN Return([f EXCEPT !.n = n.value], "Invalid selection!")
    ELSE [f EXCEPT !.n = n.value, !.sel = f.matches[1].phone]

\* int(input(...).strip()), the range test on it, and items[sel-1][0]
Selection(f, sel_in) ==
    LET n == ParseInt(Strip(sel_in)) IN
    IF ~ n.ok THEN Return(f, "Please enter a valid number!")
    ELSE IF ~ (1 <= n.value /\ n.value <= Len(f.matches))
      THEN Return([f EXCEPT !.n = n.value], "Invalid selection!")
    ELSE [f EXCEPT !.n = n.value, !.sel = f.matches[n.value].phone]

(* ---------- the handlers, up to their call of safe_save_contacts ---------- *)
add_contact(c, name_in, phone_in, email_in) ==
    LET name  == Strip(name_in)
        phone == Strip(phone_in)
        email == Strip(email_in)
        f == Frame("add", c)
    IN
    IF name = << >> THEN Return(f, "Name required!")
    ELSE IF phone = << >> THEN Return(f, "Phone required!")
    ELSE IF ~ is_valid_phone(phone)
      THEN Return([f EXCEPT !.sel = phone], "Phone must be 10 digits only!")
    ELSE IF HasKey(c, phone)
      THEN Return([f EXCEPT !.sel = phone], "Phone already exists!")
    ELSE IF email # << >> /\ ~ is_valid_email(email)
      THEN Return([f EXCEPT !.sel = phone], "Invalid email format!")
    ELSE Save([f EXCEPT !.sel = phone],
              DictSet(c, phone, Title(Strip(name)), email))

search_contact(c, ch_in, q_in) ==
    LET ch == Strip(ch_in)
        f == Frame("search", c)
    IN
    IF c = << >> THEN Return(f, "No contacts to search.")
    ELSE IF ch \notin {<<"1">>, <<"2">>, <<"3">>, <<"4">>}
      THEN Return([f EXCEPT !.ch = ch], "Invalid choice!")
    ELSE IF ch = <<"4">> THEN Return([f EXCEPT !.ch = ch], "Search cancelled.")
    ELSE LET g == FindBy(f, ch, q_in) IN
      IF g.msg # "" THEN g
      ELSE IF g.matches = << >> THEN Return(g, "No contact found.")
      ELSE g

delete_contact(c, ch_in, q_in, confirm_in, sel_in) ==
    LET ch == Strip(ch_in)
        f == Frame("delete", c)
    IN
    IF c = << >> THEN Return(f, "No contacts to delete.")
    ELSE IF ch \notin {<<"1">>, <<"2">>, <<"3">>, <<"4">>}
      THEN Return([f EXCEPT !.ch = ch], "Invalid choice!")
    ELSE IF ch = <<"4">> THEN Return([f EXCEPT !.ch = ch], "Delete cancelled.")
    ELSE LET g == FindBy(f, ch, q_in) IN
      IF g.msg # "" THEN g
      ELSE IF g.matches = << >> THEN Return(g, "No matching contact found.")
      ELSE IF Len(g.matches) = 1 THEN
        IF Lower(Strip(confirm_in)) # <<"y","e","s">>
          THEN Return(g, "Delete cancelled.")
          ELSE Save([g EXCEPT !.sel = g.matches[1].phone],
                    DictPop(c, g.matches[1].phone))
      ELSE LET h == Selection(g, sel_in) IN
        IF h.msg # "" THEN h
        ELSE Save(h, DictPop(c, h.sel))

\* faulty variant: the duplicate test without "and new_phone != phone_sel"
update_field_no_self(f, fld, new_in) ==
    LET newv == Strip(new_in)
        c == f.loaded
        g == [f EXCEPT !.fld = fld, !.newv = newv]
    IN
    IF fld = <<"1">> THEN
      IF ~ is_valid_phone(newv) THEN Return(g, "Invalid phone!")
      ELSE IF HasKey(c, newv) THEN Return(g, "Phone already exists!")
      ELSE LET old == Get(c, f.sel) IN
        Save(g, DictSet(DictPop(c, f.sel), newv, old.name, old.email))
    ELSE IF fld = <<"2">> THEN
      IF newv = << >> THEN Return(g, "Name required!")
      ELSE Save(g, DictSet(c, f.sel, Title(newv), Get(c, f.sel).email))
    ELSE
      IF newv # << >> /\ ~ is_valid_email(newv) THEN Return(g, "Invalid email!")
      ELSE Save(g, DictSet(c, f.sel, Get(c, f.sel).name, newv))

\* the three field branches of update_contact
update_field(f, fld, new_in) ==
    LET newv == Strip(new_in)
        c == f.loaded
        g == [f EXCEPT !.fld = fld, !.newv = newv]
    IN
    IF fld = <<"1">> THEN
      IF ~ is_valid_phone(newv) THEN Return(g, "Invalid phone!")
      ELSE IF HasKey(c, newv) /\ newv # f.sel THEN Return(g, "Phone already exists!")
      ELSE LET old == Get(c, f.sel) IN
        Save(g, DictSet(DictPop(c, f.sel), newv, old.name, old.email))
    ELSE IF fld = <<"2">> THEN
      IF newv = << >> THEN Return(g, "Name required!")
      ELSE Save(g, DictSet(c, f.sel, Title(newv), Get(c, f.sel).email))
    ELSE
      IF newv # << >> /\ ~ is_valid_email(newv) THEN Return(g, "Invalid email!")
      ELSE Save(g, DictSet(c, f.sel, Get(c, f.sel).name, newv))

update_contact(c, ch_in, q_in, sel_in, fld_in, new_in) ==
    LET ch  == Strip(ch_in)
        fld == Strip(fld_in)
        f == Frame("update", c)
    IN
    IF c = << >> THEN Return(f, "No contacts to update.")
    ELSE IF ch \notin {<<"1">>, <<"2">>, <<"3">>, <<"4">>}
      THEN Return([f EXCEPT !.ch = ch], "Invalid choice!")
    ELSE IF ch = <<"4">> THEN Return([f EXCEPT !.ch = ch], "Update cancelled.")
    ELSE LET g == FindBy(f, ch, q_in) IN
      IF g.msg # "" THEN g
      ELSE IF g.matches = << >> THEN Return(g, "No contact found.")
      ELSE LET h == IF Len(g.matches) = 1
                      THEN [g EXCEPT !.sel = g.matches[1].phone]
                      ELSE Selection(g, sel_in) IN
        IF h.msg # "" THEN h
        ELSE IF fld \notin {<<"1">>, <<"2">>, <<"3">>, <<"4">>}
          THEN Return([h EXCEPT !.fld = fld], "Invalid choice!")
        ELSE IF fld = <<"4">> THEN Return([h EXCEPT !.fld = fld], "Update cancelled.")
        ELSE update_field(h, fld, new_in)

clear_all_contacts(c, confirm_in) ==
    LET f == Frame("clear", c) IN
    IF c = << >> THEN Return(f, "No contacts to clear.")
    ELSE IF Lower(Strip(confirm_in)) # <<"c","o","n","f","i","r","m">>
      THEN Return(f, "Clear cancelled.")
    ELSE Save(f, << >>)

\* the print_ok after each handler's safe_save_contacts
SuccessMsg(op) ==
    CASE op = "add"    -> "Contact added successfully!"
      [] op = "delete" -> "Contact deleted."
      [] op = "update" -> "Contact updated."
      [] op = "clear"  -> "All contacts removed."
      [] OTHER         -> ""

(* ---------- state ---------- *)
\* file: contacts.json; tmp[p]: the temporary file of p's current save;
\* pc[p]: where process p is; loc[p]: the frame of p's current or last handler;
\* prev[p]: when the handler p ran just before was an add that saved, the
\* dict it had loaded and the phone it added;
\* out[p]: what p's current or last handler printed; left: the handlers
\* that may still be started
SeedStores ==
    { <<Entry(P1, <<"B","o">>, GoodEmail)>>,
      <<Entry(P1, <<"A","l">>, << >>), Entry(P2, <<"A","l">>, << >>)>> }

InitFiles ==
    {FileOf(k) : k \in {"missing", "empty", "invalid", "nonobject",
                        "unreadable", "undecodable"}}
      \cup {ObjectFile(c) : c \in SeedStores}

Start(files, running, n) ==
    /\ file \in files
    /\ tmp = [p \in Procs |-> NoFile]
    /\ pc = [p \in Procs |-> IF p \in running THEN "menu" ELSE "exited"]
    /\ loc = [p \in Procs |-> BlankFrame("none")]
    /\ prev = [p \in Procs |-> BlankFrame("none")]
    /\ out = [p \in Procs |-> << >>]
    /\ left = n

\* one instance of the program, started on any contacts.json
Init == Start(InitFiles, {"A"}, MaxOps)

\* one instance, started with contacts.json absent or empty
InitFresh == Start({FileOf("missing"), FileOf("empty")}, {"A"}, MaxOps)

\* two instances started on the same contacts.json, one handler each on average
InitTwo == Start(InitFiles, Procs, Cardinality(Procs))

SavePcs == {"mkstemp", "dump", "close", "replace"}

\* a handler from its safe_load_contacts() to its return or to its call of
\* safe_save_contacts; r is the handler's result on the dict loaded
Added(p) == loc[p].op = "add" /\ out[p] = <<SuccessMsg("add")>>

Begin(p, r) ==
    /\ left' = left - 1
    /\ prev' = [prev EXCEPT ![p] = IF Added(p)
                                       THEN [BlankFrame("add") EXCEPT
                                               !.loaded = loc[p].loaded,
                                               !.sel = loc[p].sel]
                                       ELSE BlankFrame("none")]
    /\ UNCHANGED <<file, tmp>>
    /\ IF LoadRaises(file)
         THEN /\ pc' = [pc EXCEPT ![p] = "uncaught"]
              /\ out' = [out EXCEPT ![p] = <<"UnicodeDecodeError">>]
              /\ loc' = [loc EXCEPT ![p] = BlankFrame(r.op)]
         ELSE /\ pc' = [pc EXCEPT ![p] = IF r.save THEN "mkstemp" ELSE "menu"]
              /\ out' = [out EXCEPT ![p] = IF r.msg = "" THEN << >> ELSE <<r.msg>>]
              /\ loc' = [loc EXCEPT ![p] = r]

\* p is at the menu prompt and may start a handler
AtMenu(p) == pc[p] = "menu" /\ left > 0

\* the inputs a handler reads depend on the branch it takes
QueryInputs(ch) ==
    IF ch = <<"1">> THEN PhoneInputs
    ELSE IF ch = <<"2">> THEN NameInputs
    ELSE IF ch = <<"3">> THEN EmailInputs
    ELSE {<< >>}
NewInputs(fld) ==
    IF fld = <<"1">> THEN PhoneInputs
    ELSE IF fld = <<"2">> THEN NameInputs
    ELSE IF fld = <<"3">> THEN EmailInputs
    ELSE {<< >>}
NumMatches(ch, q_in) ==
    IF ch \in {<<"1">>, <<"2">>, <<"3">>}
      THEN Len(FindBy(Frame("", safe_load_contacts(file)), ch, q_in).matches) ELSE 0

AddContact(p) ==
    /\ AtMenu(p)
    /\ \E name_in \in NameInputs :
         \E phone_in \in (IF Strip(name_in) = << >> THEN {<< >>} ELSE PhoneInputs) :
           \E email_in \in (IF is_valid_phone(Strip(phone_in))
                                /\ ~ HasKey(safe_load_contacts(file), Strip(phone_in))
                             THEN EmailInputs ELSE {<< >>}) :
             Begin(p,
                   add_contact(safe_load_contacts(file), name_in, phone_in, email_in))

SearchContact(p) ==
    /\ AtMenu(p)
    /\ \E ch \in Choices : \E q_in \in QueryInputs(ch) :
         Begin(p, search_contact(safe_load_contacts(file), ch, q_in))

DeleteContact(p) ==
    /\ AtMenu(p)
    /\ \E ch \in Choices : \E q_in \in QueryInputs(ch) :
         \E confirm_in \in (IF NumMatches(ch, q_in) = 1 THEN ConfirmInputs ELSE {<< >>}) :
           \E sel_in \in (IF NumMatches(ch, q_in) > 1 THEN SelInputs ELSE {<< >>}) :
             Begin(p,
                   delete_contact(safe_load_contacts(file), ch, q_in, confirm_in, sel_in))

UpdateContact(p) ==
    /\ AtMenu(p)
    /\ \E ch \in Choices : \E q_in \in QueryInputs(ch) :
         \E sel_in \in (IF NumMatches(ch, q_in) > 1 THEN SelInputs ELSE {<< >>}) :
           \E fld_in \in (IF NumMatches(ch, q_in) > 0 THEN Choices ELSE {<< >>}) :
             \E new_in \in NewInputs(fld_in) :
               Begin(p,
                     update_contact(safe_load_contacts(file), ch, q_in, sel_in, fld_in, new_in))

ClearAllContacts(p) ==
    /\ AtMenu(p)
    /\ \E confirm_in \in ClearInputs :
         Begin(p, clear_all_contacts(safe_load_contacts(file), confirm_in))

\* main(): a choice outside 1..7
MenuInvalid(p) ==
    /\ AtMenu(p)
    /\ left' = left - 1
    /\ out' = [out EXCEPT ![p] = <<"Invalid choice - try again.">>]
    /\ loc' = [loc EXCEPT ![p] = BlankFrame("menu")]
    /\ prev' = [prev EXCEPT ![p] = BlankFrame("none")]
    /\ UNCHANGED <<file, tmp, pc>>

\* main(): choice 7, sys.exit(0)
Exit(p) ==
    /\ pc[p] = "menu"
    /\ pc' = [pc EXCEPT ![p] = "exited"]
    /\ loc' = [loc EXCEPT ![p] = BlankFrame("none")]
    /\ prev' = [prev EXCEPT ![p] = BlankFrame("none")]
    /\ out' = [out EXCEPT ![p] = << >>]
    /\ UNCHANGED <<file, tmp, left>>

(* ---------- safe_save_contacts, step by step ---------- *)
\* tempfile.mkstemp(dir=BASE_PATH): a new empty file beside contacts.json
Mkstemp(p) ==
    /\ pc[p] = "mkstemp"
    /\ tmp' = [tmp EXCEPT ![p] = FileOf("empty")]
    /\ pc' = [pc EXCEPT ![p] = "dump"]
    /\ UNCHANGED <<file, loc, prev, out, left>>

\* faulty variant: the text is written to contacts.json itself
JsonDumpInPlace(p) ==
    /\ pc[p] = "dump"
    /\ file' = FileOf("truncated")
    /\ pc' = [pc EXCEPT ![p] = "close"]
    /\ UNCHANGED <<tmp, loc, prev, out, left>>

\* json.dump(data, tmp): part of the text has reached the temporary file
JsonDump(p) ==
    /\ pc[p] = "dump"
    /\ tmp' = [tmp EXCEPT ![p] = FileOf("truncated")]
    /\ pc' = [pc EXCEPT ![p] = "close"]
    /\ UNCHANGED <<file, loc, prev, out, left>>

\* faulty variant: the file is renamed before the rest of the text is written
CloseTmpUnflushed(p) ==
    /\ pc[p] = "close"
    /\ pc' = [pc EXCEPT ![p] = "replace"]
    /\ UNCHANGED <<file, tmp, loc, prev, out, left>>

\* the end of the with block: the whole text is in the temporary file
CloseTmp(p) ==
    /\ pc[p] = "close"
    /\ tmp' = [tmp EXCEPT ![p] = ObjectFile(loc[p].contacts)]
    /\ pc' = [pc EXCEPT ![p] = "replace"]
    /\ UNCHANGED <<file, loc, prev, out, left>>

\* Path(tmp_path).replace(JSON_PATH), then the handler's print_ok
Replace(p) ==
    /\ pc[p] = "replace"
    /\ file' = tmp[p]
    /\ tmp' = [tmp EXCEPT ![p] = NoFile]
    /\ pc' = [pc EXCEPT ![p] = "menu"]
    /\ out' = [out EXCEPT ![p] = <<SuccessMsg(loc[p].op)>>]
    /\ UNCHANGED <<loc, prev, left>>

\* mkstemp, the write or the rename raises: the except clause prints the
\* error and returns None, and the handler goes on to its print_ok (a
\* temporary file already created stays on disk under its own name; nothing
\* reads it again, so tmp[p] forgets it)
SaveFails(p) ==
    /\ pc[p] \in SavePcs
    /\ pc' = [pc EXCEPT ![p] = "menu"]
    /\ out' = [out EXCEPT ![p] = <<"ERROR saving contacts", SuccessMsg(loc[p].op)>>]
    /\ tmp' = [tmp EXCEPT ![p] = NoFile]
    /\ UNCHANGED <<file, loc, prev, left>>

\* the process is killed during the save (its memory and terminal are gone)
Kill(p) ==
    /\ pc[p] \in SavePcs
    /\ pc' = [pc EXCEPT ![p] = "killed"]
    /\ tmp' = [tmp EXCEPT ![p] = NoFile]
    /\ loc' = [loc EXCEPT ![p] = BlankFrame("none")]
    /\ prev' = [prev EXCEPT ![p] = BlankFrame("none")]
    /\ out' = [out EXCEPT ![p] = << >>]
    /\ UNCHANGED <<file, left>>

Next ==
    \E p \in Procs :
      \/ AddContact(p)
      \/ SearchContact(p)
      \/ DeleteContact(p)
      \/ UpdateContact(p)
      \/ ClearAllContacts(p)
      \/ MenuInvalid(p)
      \/ Exit(p)
      \/ Mkstemp(p)
      \/ JsonDump(p)
      \/ CloseTmp(p)
      \/ Replace(p)
      \/ SaveFails(p)
      \/ Kill(p)

Spec == Init /\ [][Next]_vars
SpecFresh == InitFresh /\ [][Next]_vars
SpecTwo == InitTwo /\ [][Next]_vars

(* ====================== the claims ====================== *)
Other(p) == CHOOSE q \in Procs : q # p

\* a store as the data model wants it: keys of exactly ten decimal digits, no
\* phone twice, names not empty, emails empty or of the email pattern
TenDigits(k) == Len(k) = PhoneLen /\ \A i \in 1..Len(k) : k[i] \in Range(DigitChars)
WellFormed(c) ==
    /\ \A i \in 1..Len(c) : /\ TenDigits(c[i].phone)
                            /\ c[i].name # << >>
                            /\ (c[i].email = << >> \/ EMAIL_RE(c[i].email))
    /\ \A i, j \in 1..Len(c) : c[i].phone = c[j].phone => i = j

\* the messages of a validation or selection failure
FailureMsgs ==
    {"Name required!", "Phone required!", "Phone must be 10 digits only!",
     "Phone already exists!", "Invalid email format!", "Invalid email!",
     "Invalid phone!", "Invalid choice!", "Invalid choice - try again.",
     "Invalid selection!", "Please enter a valid number!", "No contact found.",
     "No matching contact found.", "Delete cancelled.", "Clear cancelled."}

\* C1: a handler that ends with its success message has its dict in
\* contacts.json: a failed save is reported to the handler, which then does
\* not print the success message.
C1_SaveFailureReported ==
    [][\A p \in Procs :
         (pc[p] \in SavePcs /\ pc'[p] = "menu"
            /\ SuccessMsg(loc[p].op) \in Range(out'[p]))
         => file' = ObjectFile(loc[p].contacts)]_vars

\* C2: a lookup by email whose query satisfies is_valid_email is not rejected,
\* and finds exactly the contacts whose email equals the query, case aside.
C2_ValidEmailQueryAccepted ==
    \A p \in Procs :
      (loc[p].op \in {"search", "delete", "update"} /\ loc[p].ch = <<"3">>
         /\ is_valid_email(loc[p].q))
      => /\ ~ (loc[p].msg = "Invalid email!" /\ loc[p].fld = << >>)
         /\ \/ loc[p].matches = SelectSeq(loc[p].loaded,
                                          LAMBDA e : Lower(e.email) = loc[p].q)
            \/ loc[p].msg # ""

\* C3: safe_load_contacts never raises: no handler ends in an uncaught
\* exception, whatever contacts.json holds.
C3_LoadNeverRaises == \A p \in Procs : pc[p] # "uncaught"

\* C4: a handler that ends in a validation or selection failure has returned
\* to the menu without writing: contacts.json and the temporary files are as
\* they were before it, and no handler is in its save with such a message.
C4_FailureLeavesStore ==
    [][\A p \in Procs :
         (pc[p] = "menu" /\ left' # left
            /\ out'[p] # << >> /\ out'[p][1] \in FailureMsgs)
         => (file' = file /\ tmp' = tmp /\ pc'[p] = "menu")]_vars
C4_Witness ==
    \E p \in Procs :
      /\ pc[p] = "menu" /\ loc[p].op = "add"
      /\ out[p] = <<"Phone already exists!">>
      /\ file.kind = "object" /\ loc[p].sel \in Keys(file.store)

\* C5: started with contacts.json absent or empty, the file never holds a
\* store that is not well formed.
C5_StoreWellFormed == file.kind = "object" => WellFormed(file.store)
C5_Witness ==
    /\ file.kind = "object" /\ Len(file.store) = 2
    /\ \E i \in 1..2 : file.store[i].email # << >>

\* C6: every step leaves contacts.json as it was or replaces it, in the rename
\* of a finished save, by the whole dict being saved; a save that fails or a
\* process killed in its save leaves it as it was.
C6_AtomicReplace ==
    [][/\ \/ file' = file
          \/ \E p \in Procs : /\ pc[p] = "replace" /\ pc'[p] = "menu"
                              /\ file' = ObjectFile(loc[p].contacts)
       /\ \A p \in Procs :
            (pc[p] \in SavePcs
               /\ (pc'[p] = "killed" \/ "ERROR saving contacts" \in Range(out'[p])))
            => file' = file]_vars
C6_Witness ==
    \E p \in Procs :
      /\ pc[p] = "close" /\ tmp[p].kind = "truncated"
      /\ file.kind = "object" /\ file.store # loc[p].contacts

\* C7: update of the phone field: a value that is not ten digits fails, the
\* key of another contact fails with "Phone already exists!" and changes
\* nothing, and any other value (the contact's own phone included) re-keys
\* the entry: same name and email under the new key, every other entry and
\* the number of entries unchanged.
Rekeyed(S, C, old, new) ==
    /\ Keys(C) = (Keys(S) \ {old}) \cup {new}
    /\ Len(C) = Len(S) /\ Cardinality(Keys(C)) = Len(C)
    /\ AsMap(C)[new] = AsMap(S)[old]
    /\ \A k \in Keys(S) \ {old} : AsMap(C)[k] = AsMap(S)[k]
    /\ (new = old => AsMap(C) = AsMap(S))
C7_PhoneUpdate ==
    \A p \in Procs :
      (loc[p].op = "update" /\ loc[p].fld = <<"1">>)
      => LET f == loc[p] IN
         IF ~ TenDigits(f.newv)
           THEN ~ f.save /\ f.msg = "Invalid phone!" /\ f.contacts = f.loaded
         ELSE IF f.newv \in Keys(f.loaded) /\ f.newv # f.sel
           THEN ~ f.save /\ f.msg = "Phone already exists!" /\ f.contacts = f.loaded
         ELSE f.save /\ f.msg = "" /\ Rekeyed(f.loaded, f.contacts, f.sel, f.newv)
C7_Witness ==
    \E p \in Procs :
      /\ loc[p].op = "update" /\ loc[p].fld = <<"1">> /\ loc[p].save
      /\ Len(loc[p].loaded) = 2 /\ loc[p].newv \notin Keys(loc[p].loaded)
      /\ out[p] = <<"Contact updated.">> /\ file = ObjectFile(loc[p].contacts)

\* C8: after an add that saved and, next, a delete of the phone it added that
\* saved, contacts.json holds, as a mapping, the store the add had loaded.
RoundTrip(p) ==
    /\ pc[p] = "menu" /\ loc[p].op = "delete" /\ out[p] = <<"Contact deleted.">>
    /\ prev[p].op = "add" /\ loc[p].sel = prev[p].sel
C8_AddDeleteRoundTrip ==
    \A p \in Procs :
      RoundTrip(p) => /\ file.kind = "object"
                      /\ AsMap(file.store) = AsMap(prev[p].loaded)
C8_Witness == \E p \in Procs : RoundTrip(p) /\ prev[p].loaded # << >>

\* C9: with two processes on the same contacts.json, the file is at all times
\* what it was at the start or a whole dict that one of them saved, never a
\* part of one; a lost update is reachable (the witness).
C9_FileAlwaysWhole == file \in InitFiles \/ file.kind = "object"
C9_LostUpdate ==
    \E p \in Procs :
      LET q == Other(p) IN
      /\ pc[p] = "menu" /\ pc[q] = "menu"
      /\ loc[p].op = "add" /\ out[p] = <<"Contact added successfully!">>
      /\ loc[q].op = "add" /\ out[q] = <<"Contact added successfully!">>
      /\ loc[p].sel \notin Keys(loc[q].loaded)
      /\ file = ObjectFile(loc[q].contacts)
      /\ loc[p].sel \notin Keys(file.store)

\* C10: a delete that reaches its save holds the dict it loaded less exactly
\* one entry, in the same order: an entry that matches the criterion, the only
\* match or the match at the number selected.
Meets(ch, q, e) ==
    IF ch = <<"1">> THEN e.phone = q
    ELSE IF ch = <<"2">> THEN Lower(e.name) = q
    ELSE Lower(e.email) = q
Without(S, i) == [j \in 1..(Len(S) - 1) |-> IF j < i THEN S[j] ELSE S[j + 1]]
C10_DeleteRemovesOne ==
    \A p \in Procs :
      (loc[p].op = "delete" /\ loc[p].save)
      => LET f == loc[p] IN
         \E i \in 1..Len(f.loaded) :
           /\ Meets(f.ch, f.q, f.loaded[i])
           /\ f.contacts = Without(f.loaded, i)
           /\ f.matches = SelectSeq(f.loaded, LAMBDA e : Meets(f.ch, f.q, e))
           /\ IF Len(f.matches) = 1
                THEN f.loaded[i] = f.matches[1]
                ELSE f.n \in 1..Len(f.matches) /\ f.loaded[i] = f.matches[f.n]
C10_Witness ==
    \E p \in Procs :
      /\ loc[p].op = "delete" /\ loc[p].save
      /\ Len(loc[p].matches) = 2 /\ loc[p].n = 2
      /\ pc[p] = "menu" /\ file = ObjectFile(loc[p].contacts)

====
